---------------------------- MODULE Spec2Model ----------------------------
(***************************************************************************)
(* Model of the show-image backend core:                                   *)
(*   - MouseCache (src/backend/mouse_cache.rs): the per-device button and  *)
(*     per-(window, device) cursor position cache driven by handle_event.  *)
(*   - WindowHandle (src/backend/window.rs): the id-validated proxy that   *)
(*     forwards every mutation to the owning context.                      *)
(*   - Window::calculate_scale (src/backend/window.rs): the aspect-ratio   *)
(*     scale, computed in IEEE-754 binary32 arithmetic.                    *)
(* The three components are independent; each has its own specification    *)
(* (SpecMouse, SpecContext, SpecScale) over the shared variable list.      *)
(***************************************************************************)
EXTENDS Integers, Sequences, FiniteSets, TLC

VARIABLES
    mouse_buttons,            \* MouseCache.mouse_buttons: DeviceId -> MouseButtonState
    mouse_position,           \* MouseCache.mouse_position: (WindowId, DeviceId) -> position
    mouse_previous_position,  \* MouseCache.mouse_previous_position
    events,                   \* history: the events handle_event has processed, in order
    windows,                  \* the context's live windows: WindowId -> Window
    used,                     \* the window ids the context has handed out so far
    dispatch,                 \* the WindowEvent dispatch in progress, if any
    call,                     \* the latest WindowHandle call: operation, stored id, result
    destroyed_mid,            \* history: ids of windows destroyed by a handler during a dispatch
    options,                  \* Window.options: WindowOptions
    window_image,             \* Window.image: the size of the texture, if an image is set
    inner_size,               \* Window.window.inner_size(): <<width, height>>
    uniforms,                 \* the WindowUniforms last computed by calculate_uniforms
    uniforms_current,         \* whether uniforms was computed from the current state
    chain                     \* history: the WindowOptions setter calls that built options

mouse_vars == <<mouse_buttons, mouse_position, mouse_previous_position, events>>

context_vars == <<windows, used, dispatch, call, destroyed_mid>>

scale_vars == <<options, window_image, inner_size, uniforms, uniforms_current, chain>>

(***************************************************************************)
(* Bounds and value universes                                              *)
(***************************************************************************)
MaxEvents == 3
MaxHandlers == 2
MaxSmallSize == 3
MaxChain == 3

WindowIds == {"w1", "w2"}
DeviceIds == {"d1", "d2"}
\* winit::event::MouseButton values carried by events
WinitButtons == {"winit_Left", "winit_Right"}
ElementStates == {"Pressed", "Released"}
\* PhysicalPosition<f64> values carried by CursorMoved
Positions == {<<0, 0>>, <<1, 2>>, <<3, 1>>}

\* Option<T>: None is the empty sequence, Some(v) the one-element sequence
None == <<>>
Some(v) == <<v>>

(***************************************************************************)
(* Events (winit::event::Event<()>).  scope is the Event variant, kind the *)
(* WindowEvent / DeviceEvent variant; unused fields hold a filler.         *)
(***************************************************************************)
NoId == "-"
NoPosition == <<0, 0>>

Ev(scope, kind, w, d, b, s, p) ==
    [scope |-> scope, kind |-> kind, window_id |-> w, device_id |-> d,
     button |-> b, state |-> s, position |-> p]

MouseInput(w, d, b, s) == Ev("WindowEvent", "MouseInput", w, d, b, s, NoPosition)
CursorMoved(w, d, p) == Ev("WindowEvent", "CursorMoved", w, d, NoId, NoId, p)
CloseRequested(w) == Ev("WindowEvent", "CloseRequested", w, NoId, NoId, NoId, NoPosition)
Removed(d) == Ev("DeviceEvent", "Removed", NoId, d, NoId, NoId, NoPosition)
Added(d) == Ev("DeviceEvent", "Added", NoId, d, NoId, NoId, NoPosition)
Suspended == Ev("Suspended", "Suspended", NoId, NoId, NoId, NoId, NoPosition)

(***************************************************************************)
(* MouseButtonState (crate::event) and the winit -> crate button           *)
(* conversion.  A MouseButtonState is the set of buttons that are pressed. *)
(***************************************************************************)
MouseButton_from(button) ==
    CASE button = "winit_Left" -> "Left"
      [] button = "winit_Right" -> "Right"
      [] OTHER -> "Middle"

MouseButtonState_default == {}

set_pressed(buttons, button, pressed) ==
    IF pressed THEN buttons \cup {button} ELSE buttons \ {button}

is_pressed(buttons, button) == button \in buttons

(***************************************************************************)
(* BTreeMap helpers                                                        *)
(***************************************************************************)
\* map.entry(key).or_insert_with(|| default): the map with key present
or_insert(map, key, default) ==
    IF key \in DOMAIN map THEN map ELSE map @@ (key :> default)

\* map.remove(&key) for every key in keys
remove_keys(map, keys) == [k \in DOMAIN map \ keys |-> map[k]]

\* map.get(&key).copied()
map_get(map, key) == IF key \in DOMAIN map THEN Some(map[key]) ELSE None

EmptyMap == <<>>

(***************************************************************************)
(* MouseCache                                                              *)
(***************************************************************************)
MouseCache_default ==
    [mouse_buttons |-> EmptyMap,
     mouse_position |-> EmptyMap,
     mouse_previous_position |-> EmptyMap]

Self ==
    [mouse_buttons |-> mouse_buttons,
     mouse_position |-> mouse_position,
     mouse_previous_position |-> mouse_previous_position]

get_position(window_id, device_id) == map_get(mouse_position, <<window_id, device_id>>)

get_previous_position(window_id, device_id) ==
    map_get(mouse_previous_position, <<window_id, device_id>>)

get_buttons(device_id) == map_get(mouse_buttons, device_id)

DefaultPositionShifted == <<1, 2>>

\* [0.0, 0.0].into(), the value a position entry is created with
DefaultPosition == <<0, 0>>

mouse_input_inverted(self, device_id, button, state) ==
    LET buttons == or_insert(self.mouse_buttons, device_id, MouseButtonState_default)
    IN  [self EXCEPT !.mouse_buttons =
            [buttons EXCEPT ![device_id] =
                set_pressed(@, MouseButton_from(button), state = "Released")]]

\* the MouseInput arm of handle_window_event
mouse_input(self, device_id, button, state) ==
    LET buttons == or_insert(self.mouse_buttons, device_id, MouseButtonState_default)
    IN  [self EXCEPT !.mouse_buttons =
            [buttons EXCEPT ![device_id] =
                set_pressed(@, MouseButton_from(button), state = "Pressed")]]

cursor_moved_swapped(self, window_id, device_id, position) ==
    LET key == <<window_id, device_id>>
        cached_position == or_insert(self.mouse_position, key, DefaultPosition)
        cached_previous_position ==
            or_insert(self.mouse_previous_position, key, DefaultPosition)
        new_position == [cached_position EXCEPT ![key] = position]
    IN  [self EXCEPT
            !.mouse_position = new_position,
            !.mouse_previous_position =
                [cached_previous_position EXCEPT ![key] = new_position[key]]]

cursor_moved_all_windows(self, window_id, device_id, position) ==
    LET key == <<window_id, device_id>>
        cached_position == or_insert(self.mouse_position, key, DefaultPosition)
        cached_previous_position ==
            or_insert(self.mouse_previous_position, key, DefaultPosition)
    IN  [self EXCEPT
            !.mouse_previous_position =
                [k \in DOMAIN cached_previous_position |->
                    IF k[2] = device_id /\ k \in DOMAIN cached_position
                    THEN cached_position[k] ELSE cached_previous_position[k]],
            !.mouse_position =
                [k \in DOMAIN cached_position |->
                    IF k[2] = device_id THEN position ELSE cached_position[k]]]

\* the CursorMoved arm of handle_window_event
cursor_moved(self, window_id, device_id, position) ==
    LET key == <<window_id, device_id>>
        cached_position == or_insert(self.mouse_position, key, DefaultPosition)
        cached_previous_position ==
            or_insert(self.mouse_previous_position, key, DefaultPosition)
    IN  [self EXCEPT
            !.mouse_previous_position =
                [cached_previous_position EXCEPT ![key] = cached_position[key]],
            !.mouse_position = [cached_position EXCEPT ![key] = position]]

handle_window_event_close_purges(self, window_id, event) ==
    CASE event.kind = "MouseInput" ->
            mouse_input(self, event.device_id, event.button, event.state)
      [] event.kind = "CursorMoved" ->
            cursor_moved(self, window_id, event.device_id, event.position)
      [] event.kind = "CloseRequested" ->
            [self EXCEPT
                !.mouse_position =
                    remove_keys(@, {k \in DOMAIN @ : k[1] = window_id}),
                !.mouse_previous_position =
                    remove_keys(@, {k \in DOMAIN @ : k[1] = window_id})]
      [] OTHER -> self

handle_window_event_input_moves(self, window_id, event) ==
    CASE event.kind = "MouseInput" ->
            LET pressed == mouse_input(self, event.device_id, event.button, event.state)
                key == <<window_id, event.device_id>>
            IN  [pressed EXCEPT
                    !.mouse_position = or_insert(@, key, DefaultPosition),
                    !.mouse_previous_position = or_insert(@, key, DefaultPosition)]
      [] event.kind = "CursorMoved" ->
            cursor_moved(self, window_id, event.device_id, event.position)
      [] OTHER -> self

handle_window_event(self, window_id, event) ==
    CASE event.kind = "MouseInput" ->
            mouse_input(self, event.device_id, event.button, event.state)
      [] event.kind = "CursorMoved" ->
            cursor_moved(self, window_id, event.device_id, event.position)
      [] OTHER -> self

remove_device_keeps_previous(self, device_id) ==
    LET keys == {k \in DOMAIN self.mouse_position : k[2] = device_id}
    IN  [self EXCEPT
            !.mouse_buttons = remove_keys(@, {device_id}),
            !.mouse_position = remove_keys(@, keys)]

remove_device_buttons_only(self, device_id) ==
    [self EXCEPT !.mouse_buttons = remove_keys(@, {device_id})]

remove_device_clears_positions(self, device_id) ==
    [self EXCEPT
        !.mouse_buttons = remove_keys(@, {device_id}),
        !.mouse_position = EmptyMap,
        !.mouse_previous_position = EmptyMap]

remove_device(self, device_id) ==
    LET keys == {k \in DOMAIN self.mouse_position : k[2] = device_id}
        previous_keys == {k \in DOMAIN self.mouse_previous_position : k[2] = device_id}
    IN  [self EXCEPT
            !.mouse_buttons = remove_keys(@, {device_id}),
            !.mouse_position = remove_keys(@, keys),
            !.mouse_previous_position = remove_keys(@, previous_keys)]

handle_device_event_any(self, device_id, event) == remove_device(self, device_id)

handle_device_event(self, device_id, event) ==
    IF event.kind = "Removed" THEN remove_device(self, device_id) ELSE self

handle_event(self, event) ==
    CASE event.scope = "WindowEvent" -> handle_window_event(self, event.window_id, event)
      [] event.scope = "DeviceEvent" -> handle_device_event(self, event.device_id, event)
      [] OTHER -> self

(***************************************************************************)
(* Window and the owning context.  The context (crate::ContextHandle) owns *)
(* the windows and resolves a WindowId to a live Window or reports that    *)
(* the id is invalid.                                                      *)
(***************************************************************************)
Images == {"imgA"}
Handlers == {"f", "g"}
Results == {"Ok", "InvalidWindowIdError"}

\* the state of a Window that the handle operations touch
Window(visible, image, event_handlers) ==
    [visible |-> visible, image |-> image, event_handlers |-> event_handlers]

Done(ctx, result) == [windows |-> ctx, result |-> result]

destroy_window(ctx, window_id) ==
    IF window_id \in DOMAIN ctx
    THEN Done(remove_keys(ctx, {window_id}), "Ok")
    ELSE Done(ctx, "InvalidWindowIdError")

set_window_visible(ctx, window_id, visible) ==
    IF window_id \in DOMAIN ctx
    THEN Done([ctx EXCEPT ![window_id].visible = visible], "Ok")
    ELSE Done(ctx, "InvalidWindowIdError")

set_window_image(ctx, window_id, name, image) ==
    IF window_id \in DOMAIN ctx
    THEN Done([ctx EXCEPT ![window_id].image = Some(image)], "Ok")
    ELSE Done(ctx, "InvalidWindowIdError")

add_boxed_window_event_handler(ctx, window_id, handler) ==
    IF window_id \in DOMAIN ctx
    THEN Done([ctx EXCEPT ![window_id].event_handlers = Append(@, handler)], "Ok")
    ELSE Done(ctx, "InvalidWindowIdError")

add_window_event_handler(ctx, window_id, handler) ==
    add_boxed_window_event_handler(ctx, window_id, handler)

(***************************************************************************)
(* WindowHandle: a context handle plus the stored window id.  The context  *)
(* handle is the reference to the context's windows, passed as ctx.        *)
(***************************************************************************)
WindowHandle_new(window_id) == [window_id |-> window_id]

\* the window a stale handle would hit if it named a slot instead of an id
Fallback(self, ctx) ==
    IF self.window_id \in DOMAIN ctx \/ DOMAIN ctx = {}
    THEN self.window_id
    ELSE CHOOSE w \in DOMAIN ctx : TRUE

WindowHandle_destroy(self, ctx) == destroy_window(ctx, self.window_id)

WindowHandle_set_visible_fallback(self, ctx, visible) ==
    set_window_visible(ctx, Fallback(self, ctx), visible)

WindowHandle_set_visible(self, ctx, visible) ==
    set_window_visible(ctx, self.window_id, visible)

WindowHandle_set_image_fallback(self, ctx, name, image) ==
    set_window_image(ctx, Fallback(self, ctx), name, image)

WindowHandle_set_image(self, ctx, name, image) ==
    set_window_image(ctx, self.window_id, name, image)

WindowHandle_add_event_handler(self, ctx, handler) ==
    add_window_event_handler(ctx, self.window_id, handler)

WindowHandle_add_boxed_event_handler(self, ctx, handler) ==
    add_boxed_window_event_handler(ctx, self.window_id, handler)

(***************************************************************************)
(* Dispatch of a WindowEvent to the handlers of a window.  Each handler is *)
(* invoked with a fresh WindowHandle for the window's id; it runs to       *)
(* completion and may call the handle any number of times.                 *)
(***************************************************************************)
NoCall == [op |-> "none", window_id |-> NoId, result |-> "Ok"]

NoDispatch ==
    [active |-> FALSE, window_id |-> NoId, event_handlers |-> <<>>, index |-> 0,
     consumed |-> FALSE, killed |-> {}, killing |-> {}]

\* the handles user code can call in the current state: inside a dispatch the
\* running handler's own handle (unless destroy consumed it), otherwise a
\* handle for any id the caller kept
Handles ==
    IF dispatch.active
    THEN IF dispatch.consumed THEN {} ELSE {WindowHandle_new(dispatch.window_id)}
    ELSE {WindowHandle_new(w) : w \in WindowIds}

\* room for one more handler on the window the handle names
CanAddHandler(self) ==
    self.window_id \in DOMAIN windows =>
        Len(windows[self.window_id].event_handlers) < MaxHandlers

Return(op, self, out) ==
    /\ windows' = out.windows
    /\ call' = [op |-> op, window_id |-> self.window_id, result |-> out.result]
    /\ UNCHANGED used
    /\ UNCHANGED <<mouse_vars, scale_vars>>

CreateWindow ==
    \E window_id \in WindowIds \ used, visible \in BOOLEAN :
        /\ ~dispatch.active
        /\ windows' = windows @@ (window_id :> Window(visible, None, <<>>))
        /\ used' = used \cup {window_id}
        /\ call' = NoCall
        /\ UNCHANGED <<dispatch, destroyed_mid>>
        /\ UNCHANGED <<mouse_vars, scale_vars>>

Destroy ==
    \E self \in Handles :
        LET out == WindowHandle_destroy(self, windows)
        IN  /\ Return("destroy", self, out)
            /\ IF dispatch.active
               THEN /\ dispatch' =
                        [dispatch EXCEPT
                            !.consumed = TRUE,
                            !.killing = IF out.result = "Ok"
                                        THEN @ \cup {self.window_id} ELSE @]
                    /\ destroyed_mid' =
                        IF out.result = "Ok"
                        THEN destroyed_mid \cup {self.window_id} ELSE destroyed_mid
               ELSE UNCHANGED <<dispatch, destroyed_mid>>

SetVisible ==
    \E self \in Handles, visible \in BOOLEAN :
        /\ Return("set_visible", self, WindowHandle_set_visible(self, windows, visible))
        /\ UNCHANGED <<dispatch, destroyed_mid>>

SetImage ==
    \E self \in Handles, image \in Images :
        /\ Return("set_image", self, WindowHandle_set_image(self, windows, "image", image))
        /\ UNCHANGED <<dispatch, destroyed_mid>>

AddEventHandler ==
    \E self \in Handles, handler \in Handlers :
        /\ CanAddHandler(self)
        /\ Return("add_event_handler", self,
                  WindowHandle_add_event_handler(self, windows, handler))
        /\ UNCHANGED <<dispatch, destroyed_mid>>

AddBoxedEventHandler ==
    \E self \in Handles, handler \in Handlers :
        /\ CanAddHandler(self)
        /\ Return("add_boxed_event_handler", self,
                  WindowHandle_add_boxed_event_handler(self, windows, handler))
        /\ UNCHANGED <<dispatch, destroyed_mid>>

\* a running handler destroys a window through handle.context_handle()
ContextDestroy ==
    \E self \in Handles, window_id \in WindowIds :
        LET out == destroy_window(windows, window_id)
        IN  /\ dispatch.active
            /\ out.result = "Ok"
            /\ windows' = out.windows
            /\ call' = NoCall
            /\ dispatch' = [dispatch EXCEPT !.killing = @ \cup {window_id}]
            /\ destroyed_mid' = destroyed_mid \cup {window_id}
            /\ UNCHANGED used
            /\ UNCHANGED <<mouse_vars, scale_vars>>

\* the context starts dispatching a WindowEvent to the handlers of a window
StartDispatch ==
    \E window_id \in DOMAIN windows :
        /\ ~dispatch.active
        /\ windows[window_id].event_handlers # <<>>
        /\ dispatch' =
            [NoDispatch EXCEPT
                !.active = TRUE,
                !.window_id = window_id,
                !.event_handlers = windows[window_id].event_handlers,
                !.index = 1]
        /\ call' = NoCall
        /\ UNCHANGED <<windows, used, destroyed_mid>>
        /\ UNCHANGED <<mouse_vars, scale_vars>>

\* the running handler returns; the next one runs unless propagation stops
HandlerReturn ==
    \E stop_propagation \in BOOLEAN :
        /\ dispatch.active
        /\ dispatch' =
            IF stop_propagation \/ dispatch.index = Len(dispatch.event_handlers)
            THEN NoDispatch
            ELSE [dispatch EXCEPT
                    !.index = @ + 1,
                    !.consumed = FALSE,
                    !.killed = @ \cup dispatch.killing,
                    !.killing = {}]
        /\ call' = NoCall
        /\ UNCHANGED <<windows, used, destroyed_mid>>
        /\ UNCHANGED <<mouse_vars, scale_vars>>

ContextInit ==
    /\ windows = EmptyMap
    /\ used = {}
    /\ dispatch = NoDispatch
    /\ call = NoCall
    /\ destroyed_mid = {}

(***************************************************************************)
(* IEEE-754 binary32 values, as far as calculate_scale needs them: the     *)
(* non-negative values zero, normal (m * 2^e with 2^23 <= m < 2^24),       *)
(* infinity and NaN.  The sizes are far from the exponent limits, so no    *)
(* quotient overflows or becomes subnormal.                                *)
(***************************************************************************)
TwoTo23 == 8388608
TwoTo24 == 16777216

F32(class, m, e) == [class |-> class, m |-> m, e |-> e]

NaN == F32("nan", 0, 0)
Infinity == F32("inf", 0, 0)
Zero == F32("zero", 0, 0)
Normal(m, e) == F32("normal", m, e)
One == Normal(TwoTo23, -23)

\* round to nearest, ties to even: the quotient bits q with remainder r of divisor d
RoundNearestEven(q, r, d, e) ==
    LET up == 2 * r > d \/ (2 * r = d /\ q % 2 = 1)
        m == IF up THEN q + 1 ELSE q
    IN  IF m = TwoTo24 THEN Normal(TwoTo23, e + 1) ELSE Normal(m, e)

\* `n as f32` for an unsigned integer n
RECURSIVE ScaleUp(_, _)
ScaleUp(m, e) == IF m >= TwoTo23 THEN Normal(m, e) ELSE ScaleUp(2 * m, e - 1)

RECURSIVE ScaleDown(_, _, _)
ScaleDown(n, k, e) ==
    IF n \div k < TwoTo24
    THEN RoundNearestEven(n \div k, n % k, k, e)
    ELSE ScaleDown(n, 2 * k, e + 1)

as_f32(n) ==
    IF n = 0 THEN Zero
    ELSE IF n < TwoTo24 THEN ScaleUp(n, 0)
    ELSE ScaleDown(n, 1, 0)

\* long division: `steps` more quotient bits of r / d, r < d
RECURSIVE LongDivision(_, _, _, _)
LongDivision(q, r, d, steps) ==
    IF steps = 0 THEN <<q, r>>
    ELSE IF 2 * r >= d
         THEN LongDivision(2 * q + 1, 2 * r - d, d, steps - 1)
         ELSE LongDivision(2 * q, 2 * r, d, steps - 1)

\* a / b in binary32
F32_div(a, b) ==
    CASE a.class = "nan" \/ b.class = "nan" -> NaN
      [] a.class = "inf" /\ b.class = "inf" -> NaN
      [] a.class = "zero" /\ b.class = "zero" -> NaN
      [] a.class = "inf" -> Infinity
      [] b.class = "zero" -> Infinity
      [] a.class = "zero" -> Zero
      [] b.class = "inf" -> Zero
      [] OTHER ->
            IF a.m >= b.m
            THEN LET qr == LongDivision(1, a.m - b.m, b.m, 23)
                 IN  RoundNearestEven(qr[1], qr[2], b.m, a.e - b.e - 23)
            ELSE LET qr == LongDivision(0, a.m, b.m, 24)
                 IN  RoundNearestEven(qr[1], qr[2], b.m, a.e - b.e - 24)

\* a >= b in binary32: false as soon as an operand is NaN
F32_ge(a, b) ==
    CASE a.class = "nan" \/ b.class = "nan" -> FALSE
      [] a.class = "inf" -> TRUE
      [] b.class = "inf" -> FALSE
      [] b.class = "zero" -> TRUE
      [] a.class = "zero" -> FALSE
      [] OTHER -> a.e > b.e \/ (a.e = b.e /\ a.m >= b.m)

(***************************************************************************)
(* WindowOptions, WindowUniforms and Window::calculate_scale               *)
(***************************************************************************)
WindowOptions_default ==
    [preserve_aspect_ratio |-> TRUE,
     background_color |-> "BLACK",
     start_hidden |-> FALSE,
     size |-> None,
     resizable |-> TRUE]

set_preserve_aspect_ratio(self, preserve_aspect_ratio) ==
    [self EXCEPT !.preserve_aspect_ratio = preserve_aspect_ratio]

set_background_color(self, background_color) ==
    [self EXCEPT !.background_color = background_color]

set_start_hidden_wrong_field(self, start_hidden) ==
    [self EXCEPT !.resizable = start_hidden]

set_start_hidden(self, start_hidden) == [self EXCEPT !.start_hidden = start_hidden]

set_size(self, size) == [self EXCEPT !.size = Some(size)]

set_resizable(self, resizable) == [self EXCEPT !.resizable = resizable]

WindowUniforms(scale) == [scale |-> scale]

WindowUniforms_default == WindowUniforms(<<One, One>>)

\* the fields of Window that calculate_scale reads
ThisWindow == [options |-> options, image |-> window_image, inner_size |-> inner_size]

calculate_scale_swapped(self) ==
    IF ~self.options.preserve_aspect_ratio
    THEN <<One, One>>
    ELSE IF self.image # None
    THEN LET image_size == <<as_f32(self.image[1][1]), as_f32(self.image[1][2])>>
             window_size == <<as_f32(self.inner_size[1]), as_f32(self.inner_size[2])>>
             ratios == <<F32_div(image_size[1], window_size[1]),
                         F32_div(image_size[2], window_size[2])>>
         IN  IF F32_ge(ratios[1], ratios[2])
             THEN <<F32_div(ratios[2], ratios[1]), One>>
             ELSE <<One, F32_div(ratios[1], ratios[2])>>
    ELSE <<One, One>>

\* Rust indexes [0] and [1] are the tuple positions 1 and 2
calculate_scale(self) ==
    IF ~self.options.preserve_aspect_ratio
    THEN <<One, One>>
    ELSE IF self.image # None
    THEN LET image_size == <<as_f32(self.image[1][1]), as_f32(self.image[1][2])>>
             window_size == <<as_f32(self.inner_size[1]), as_f32(self.inner_size[2])>>
             ratios == <<F32_div(image_size[1], window_size[1]),
                         F32_div(image_size[2], window_size[2])>>
         IN  IF F32_ge(ratios[1], ratios[2])
             THEN <<One, F32_div(ratios[2], ratios[1])>>
             ELSE <<F32_div(ratios[1], ratios[2]), One>>
    ELSE <<One, One>>

calculate_uniforms(self) == WindowUniforms(calculate_scale(self))

\* widths and heights (u32) of images and windows
Sizes == (0..MaxSmallSize) \cup {300, 400, 600, 800, 16777217}

\* the rendering backend recomputes the uniforms of the window
CalculateUniforms ==
    /\ ~uniforms_current
    /\ uniforms' = calculate_uniforms(ThisWindow)
    /\ uniforms_current' = TRUE
    /\ UNCHANGED <<options, window_image, inner_size, chain>>
    /\ UNCHANGED <<mouse_vars, context_vars>>

\* a window without an image, as the other specifications keep it
ScaleIdle ==
    /\ options = WindowOptions_default
    /\ chain = <<>>
    /\ window_image = None
    /\ inner_size = <<1, 1>>
    /\ uniforms = WindowUniforms_default
    /\ uniforms_current = FALSE

\* a window of any size, with or without an image of any size
ScaleInit ==
    /\ \E preserve_aspect_ratio \in BOOLEAN :
        /\ options = set_preserve_aspect_ratio(WindowOptions_default, preserve_aspect_ratio)
        /\ chain = <<<<"set_preserve_aspect_ratio", preserve_aspect_ratio>>>>
    /\ window_image \in {None} \cup {Some(<<w, h>>) : w \in Sizes, h \in Sizes}
    /\ inner_size \in Sizes \X Sizes
    /\ uniforms = WindowUniforms_default
    /\ uniforms_current = FALSE

(***************************************************************************)
(* WindowOptions builder: user code chains setters on an options value     *)
(***************************************************************************)
Colors == {"BLACK", "WHITE"}
OptionSizes == {<<800, 600>>, <<1, 1>>}

\* the history has room for one more setter call
CanChain == Len(chain) < MaxChain

Chained(setter, argument, result) ==
    /\ options' = result
    /\ chain' = Append(chain, <<setter, argument>>)
    /\ UNCHANGED <<window_image, inner_size, uniforms, uniforms_current>>
    /\ UNCHANGED <<mouse_vars, context_vars>>

SetPreserveAspectRatio ==
    \E preserve_aspect_ratio \in BOOLEAN :
        /\ CanChain
        /\ Chained("set_preserve_aspect_ratio", preserve_aspect_ratio,
                   set_preserve_aspect_ratio(options, preserve_aspect_ratio))

SetBackgroundColor ==
    \E background_color \in Colors :
        /\ CanChain
        /\ Chained("set_background_color", background_color,
                   set_background_color(options, background_color))

SetStartHidden ==
    \E start_hidden \in BOOLEAN :
        /\ CanChain
        /\ Chained("set_start_hidden", start_hidden, set_start_hidden(options, start_hidden))

SetSize ==
    \E size \in OptionSizes :
        /\ CanChain
        /\ Chained("set_size", size, set_size(options, size))

SetResizable ==
    \E resizable \in BOOLEAN :
        /\ CanChain
        /\ Chained("set_resizable", resizable, set_resizable(options, resizable))

(***************************************************************************)
(* MouseCache actions: the context feeds one event to handle_event         *)
(***************************************************************************)
\* the history has room for one more event
CanProcess == Len(events) < MaxEvents

Process(event) ==
    /\ LET cache == handle_event(Self, event)
       IN  /\ mouse_buttons' = cache.mouse_buttons
           /\ mouse_position' = cache.mouse_position
           /\ mouse_previous_position' = cache.mouse_previous_position
    /\ events' = Append(events, event)
    /\ UNCHANGED <<context_vars, scale_vars>>

OnMouseInput ==
    \E w \in WindowIds, d \in DeviceIds, b \in WinitButtons, s \in ElementStates :
        CanProcess /\ Process(MouseInput(w, d, b, s))

OnCursorMoved ==
    \E w \in WindowIds, d \in DeviceIds, p \in Positions :
        CanProcess /\ Process(CursorMoved(w, d, p))

OnDeviceRemoved == \E d \in DeviceIds : CanProcess /\ Process(Removed(d))

OnDeviceAdded == \E d \in DeviceIds : CanProcess /\ Process(Added(d))

OnCloseRequested == \E w \in WindowIds : CanProcess /\ Process(CloseRequested(w))

OnSuspended == CanProcess /\ Process(Suspended)

MouseInit ==
    /\ mouse_buttons = MouseCache_default.mouse_buttons
    /\ mouse_position = MouseCache_default.mouse_position
    /\ mouse_previous_position = MouseCache_default.mouse_previous_position
    /\ events = <<>>

vars == <<mouse_vars, context_vars, scale_vars>>

InitMouse == MouseInit /\ ContextInit /\ ScaleIdle

NextMouse ==
    \/ OnMouseInput
    \/ OnCursorMoved
    \/ OnDeviceRemoved
    \/ OnDeviceAdded
    \/ OnCloseRequested
    \/ OnSuspended

SpecMouse == InitMouse /\ [][NextMouse]_vars

InitContext == MouseInit /\ ContextInit /\ ScaleIdle

NextContext ==
    \/ CreateWindow
    \/ Destroy
    \/ SetVisible
    \/ SetImage
    \/ AddEventHandler
    \/ AddBoxedEventHandler
    \/ ContextDestroy
    \/ StartDispatch
    \/ HandlerReturn

SpecContext == InitContext /\ [][NextContext]_vars

InitScale == MouseInit /\ ContextInit /\ ScaleInit

NextScale == CalculateUniforms

SpecScale == InitScale /\ [][NextScale]_vars

InitOptions == MouseInit /\ ContextInit /\ ScaleIdle

NextOptions ==
    \/ SetPreserveAspectRatio
    \/ SetBackgroundColor
    \/ SetStartHidden
    \/ SetSize
    \/ SetResizable

SpecOptions == InitOptions /\ [][NextOptions]_vars

(***************************************************************************)
(* History operators over the processed events                             *)
(***************************************************************************)
IsRemoved(e, d) == e.scope = "DeviceEvent" /\ e.kind = "Removed" /\ e.device_id = d

IsMouseInput(e, d) == e.scope = "WindowEvent" /\ e.kind = "MouseInput" /\ e.device_id = d

IsCursorMoved(e, w, d) ==
    e.scope = "WindowEvent" /\ e.kind = "CursorMoved" /\ e.window_id = w /\ e.device_id = d

\* index of the most recent Removed event for d, 0 if there is none
LastRemoved(d) ==
    LET idx == {i \in 1..Len(events) : IsRemoved(events[i], d)}
    IN  IF idx = {} THEN 0 ELSE CHOOSE i \in idx : \A j \in idx : j <= i

\* the events processed after the most recent Removed event for d
SinceRemoved(d) == SubSeq(events, LastRemoved(d) + 1, Len(events))

\* positions of the CursorMoved events on (w, d) since d was last removed
MovesSince(w, d) ==
    LET IsMove(e) == IsCursorMoved(e, w, d)
        moves == SelectSeq(SinceRemoved(d), IsMove)
    IN  [i \in 1..Len(moves) |-> moves[i].position]

\* the MouseInput events of d for button b since d was last removed
InputsSince(d, b) ==
    LET IsInput(e) == IsMouseInput(e, d) /\ e.button = b
    IN  SelectSeq(SinceRemoved(d), IsInput)

HasInputSince(d) == \E i \in 1..Len(SinceRemoved(d)) : IsMouseInput(SinceRemoved(d)[i], d)

LastEvent == events[Len(events)]

DeviceAbsent(d) ==
    /\ get_buttons(d) = None
    /\ \A w \in WindowIds :
        get_position(w, d) = None /\ get_previous_position(w, d) = None

(***************************************************************************)
(* C1: immediately after handle_event processes a Removed event for d,     *)
(* get_buttons(d) is none and get_position(w, d) and                       *)
(* get_previous_position(w, d) are none for every window w.                *)
(***************************************************************************)
C1_RemovedClearsDevice ==
    \A d \in DeviceIds :
        (events # <<>> /\ IsRemoved(LastEvent, d)) => DeviceAbsent(d)

\* a device that had a button entry and a position entry has just been removed
C1_Witness ==
    \E d \in DeviceIds, w \in WindowIds :
        /\ Len(events) = 3
        /\ IsMouseInput(events[1], d)
        /\ IsCursorMoved(events[2], w, d)
        /\ IsRemoved(events[3], d)
        /\ DeviceAbsent(d)

(***************************************************************************)
(* C2: after two or more CursorMoved events on one (window, device) key    *)
(* with no Removed for the device in between, get_position is the last     *)
(* position and get_previous_position the second-to-last one.              *)
(***************************************************************************)
C2_PreviousLagsByOne ==
    \A w \in WindowIds, d \in DeviceIds :
        LET moves == MovesSince(w, d)
            n == Len(moves)
        IN  n >= 2 =>
                /\ get_position(w, d) = Some(moves[n])
                /\ get_previous_position(w, d) = Some(moves[n - 1])

\* two moves on a key to different positions, with a move on another key between
C2_Witness ==
    \E w \in WindowIds, d \in DeviceIds :
        /\ Len(events) = 3
        /\ IsCursorMoved(events[1], w, d)
        /\ events[2].kind = "CursorMoved"
        /\ ~IsCursorMoved(events[2], w, d)
        /\ IsCursorMoved(events[3], w, d)
        /\ events[1].position # events[3].position
        /\ get_position(w, d) = Some(events[3].position)
        /\ get_previous_position(w, d) = Some(events[1].position)

(***************************************************************************)
(* C3: the first CursorMoved with position p on a fresh (window, device)   *)
(* key (never observed, or whose device was removed since its last move)   *)
(* leaves get_position = p and get_previous_position = [0,0].              *)
(***************************************************************************)
C3_FirstMoveFromOrigin ==
    \A w \in WindowIds, d \in DeviceIds :
        LET moves == MovesSince(w, d)
        IN  Len(moves) = 1 =>
                /\ get_position(w, d) = Some(moves[1])
                /\ get_previous_position(w, d) = Some(<<0, 0>>)

\* a key that was moved, whose device was removed, is moved again off the origin
C3_Witness ==
    \E w \in WindowIds, d \in DeviceIds :
        /\ Len(events) = 3
        /\ IsCursorMoved(events[1], w, d)
        /\ events[1].position # <<0, 0>>
        /\ IsRemoved(events[2], d)
        /\ IsCursorMoved(events[3], w, d)
        /\ events[3].position # <<0, 0>>
        /\ get_previous_position(w, d) = Some(<<0, 0>>)

(***************************************************************************)
(* C4: while a device has a button entry, each button is reported pressed  *)
(* exactly when the most recent MouseInput for that button on the device   *)
(* (since the device was last removed) had state Pressed; a button with no *)
(* MouseInput is reported released.                                        *)
(***************************************************************************)
ButtonPressed(d, b) ==
    get_buttons(d) # None /\ is_pressed(get_buttons(d)[1], MouseButton_from(b))

C4_ButtonsFollowLastInput ==
    \A d \in DeviceIds :
        get_buttons(d) # None =>
            /\ \A b \in WinitButtons :
                LET inputs == InputsSince(d, b)
                IN  ButtonPressed(d, b) <=>
                        (inputs # <<>> /\ inputs[Len(inputs)].state = "Pressed")
            /\ get_buttons(d)[1] \subseteq {MouseButton_from(b) : b \in WinitButtons}

\* one button pressed then released while another button stays pressed
C4_Witness ==
    \E d \in DeviceIds, b1 \in WinitButtons, b2 \in WinitButtons :
        /\ b1 # b2
        /\ Len(events) = 3
        /\ IsMouseInput(events[1], d) /\ events[1].button = b1 /\ events[1].state = "Pressed"
        /\ IsMouseInput(events[2], d) /\ events[2].button = b2 /\ events[2].state = "Pressed"
        /\ IsMouseInput(events[3], d) /\ events[3].button = b1 /\ events[3].state = "Released"
        /\ ~ButtonPressed(d, b1)
        /\ ButtonPressed(d, b2)

(***************************************************************************)
(* C5: entries are created lazily.  get_buttons(d) is present iff a        *)
(* MouseInput for d was processed since the most recent Removed for d;     *)
(* get_position(w, d) and get_previous_position(w, d) are each present iff *)
(* a CursorMoved for (w, d) was processed since the most recent Removed    *)
(* for d.                                                                  *)
(***************************************************************************)
C5_LazyCreation ==
    \A d \in DeviceIds :
        /\ (get_buttons(d) # None) <=> HasInputSince(d)
        /\ \A w \in WindowIds :
            /\ (get_position(w, d) # None) <=> (MovesSince(w, d) # <<>>)
            /\ (get_previous_position(w, d) # None) <=> (MovesSince(w, d) # <<>>)

\* a device with a position entry and no button entry, another with the opposite
C5_Witness ==
    \E d1 \in DeviceIds, d2 \in DeviceIds, w \in WindowIds :
        /\ d1 # d2
        /\ get_buttons(d1) = None /\ get_position(w, d1) # None
        /\ get_buttons(d2) # None /\ get_position(w, d2) = None
        /\ \E i \in 1..Len(events) : IsRemoved(events[i], d2)

(***************************************************************************)
(* C10 as stated: once a Removed event for d has been processed, no entry  *)
(* for d exists in any later state, whatever events follow.                *)
(***************************************************************************)
C10_NeverAgainAfterRemoved ==
    \A d \in DeviceIds : LastRemoved(d) > 0 => DeviceAbsent(d)

(***************************************************************************)
(* C10 amended: after a Removed event for d, no entry for d exists for as  *)
(* long as no MouseInput or CursorMoved event carrying device id d has     *)
(* been processed since; such an event creates the entry again.            *)
(***************************************************************************)
CarriesDevice(e, d) ==
    e.scope = "WindowEvent" /\ e.kind \in {"MouseInput", "CursorMoved"} /\ e.device_id = d

C10_AbsentUntilSeenAgain ==
    \A d \in DeviceIds :
        (/\ LastRemoved(d) > 0
         /\ \A i \in 1..Len(SinceRemoved(d)) : ~CarriesDevice(SinceRemoved(d)[i], d))
            => DeviceAbsent(d)

\* d had entries, was removed, and other events followed without bringing d back
C10_Witness ==
    \E d \in DeviceIds :
        /\ Len(events) = 3
        /\ CarriesDevice(events[1], d)
        /\ IsRemoved(events[2], d)
        /\ ~CarriesDevice(events[3], d)
        /\ ~IsRemoved(events[3], d)
        /\ DeviceAbsent(d)


(***************************************************************************)
(* C6: every mutating WindowHandle operation is forwarded with the stored  *)
(* window id.  If that id is not a live window the call returns the        *)
(* invalid-window-id error and the windows, their visibility, images and   *)
(* handler lists are unchanged; if it is live the call succeeds and leaves *)
(* every other window as it was.                                           *)
(***************************************************************************)
HandleOps ==
    {"destroy", "set_visible", "set_image", "add_event_handler", "add_boxed_event_handler"}

OthersUntouched(window_id) ==
    /\ DOMAIN windows' \ {window_id} = DOMAIN windows \ {window_id}
    /\ \A w \in DOMAIN windows \ {window_id} : windows'[w] = windows[w]

C6_HandleCallValidated ==
    [][call'.op \in HandleOps =>
        IF call'.window_id \in DOMAIN windows
        THEN call'.result = "Ok" /\ OthersUntouched(call'.window_id)
        ELSE call'.result = "InvalidWindowIdError" /\ windows' = windows]_vars

\* a call on a stale id failed while another window, with an image and a
\* handler, was alive
C6_Witness ==
    /\ call.op = "set_visible"
    /\ call.result = "InvalidWindowIdError"
    /\ call.window_id \in used
    /\ \E w \in DOMAIN windows :
        windows[w].image # None /\ windows[w].event_handlers # <<>>

(***************************************************************************)
(* C7: once a handler has destroyed window w during a dispatch, every      *)
(* later WindowHandle call with id w (in the same handler, in a later      *)
(* handler of that dispatch, or in any later event) returns the            *)
(* invalid-window-id error and changes no window.                          *)
(***************************************************************************)
C7_DestroyedMidDispatchStaysInvalid ==
    [][(call'.op \in HandleOps /\ call'.window_id \in destroyed_mid) =>
        (call'.result = "InvalidWindowIdError" /\ windows' = windows)]_vars

\* a later handler of the same dispatch calls its handle after an earlier
\* handler destroyed the window, while another window is alive
C7_Witness ==
    /\ dispatch.active
    /\ dispatch.index > 1
    /\ dispatch.window_id \in dispatch.killed
    /\ call.op \in HandleOps \ {"destroy"}
    /\ call.window_id = dispatch.window_id
    /\ call.result = "InvalidWindowIdError"
    /\ DOMAIN windows # {}


(***************************************************************************)
(* C8: for positive image and window dimensions calculate_scale returns    *)
(* [1.0, 1.0] when preserve_aspect_ratio is false and when no image is     *)
(* set; otherwise, with ratios = [image_w/window_w, image_h/window_h], it  *)
(* returns [1.0, ratios[1]/ratios[0]] when ratios[0] >= ratios[1] and      *)
(* [ratios[0]/ratios[1], 1.0] otherwise.  Image 800x600 gives [1.0, 1.0]   *)
(* in a 400x300 window and [1.0, 0.75] in a 400x400 window.                *)
(***************************************************************************)
ThreeQuarters == Normal(12582912, -24)

PositiveSizes ==
    /\ inner_size[1] > 0 /\ inner_size[2] > 0
    /\ window_image # None => (window_image[1][1] > 0 /\ window_image[1][2] > 0)

WidthRatio == F32_div(as_f32(window_image[1][1]), as_f32(inner_size[1]))

HeightRatio == F32_div(as_f32(window_image[1][2]), as_f32(inner_size[2]))

ReferenceScale ==
    CASE ~options.preserve_aspect_ratio -> <<One, One>>
      [] options.preserve_aspect_ratio /\ window_image = None -> <<One, One>>
      [] OTHER ->
            IF F32_ge(WidthRatio, HeightRatio)
            THEN <<One, F32_div(HeightRatio, WidthRatio)>>
            ELSE <<F32_div(WidthRatio, HeightRatio), One>>

C8_ScaleMatchesReference ==
    (uniforms_current /\ PositiveSizes) =>
        /\ uniforms.scale = ReferenceScale
        /\ (/\ options.preserve_aspect_ratio
            /\ window_image = Some(<<800, 600>>)
            /\ inner_size = <<400, 300>>) => uniforms.scale = <<One, One>>
        /\ (/\ options.preserve_aspect_ratio
            /\ window_image = Some(<<800, 600>>)
            /\ inner_size = <<400, 400>>) => uniforms.scale = <<One, ThreeQuarters>>

\* the scale of an 800x600 image in a 400x400 window has been computed
C8_Witness ==
    /\ uniforms_current
    /\ options.preserve_aspect_ratio
    /\ window_image = Some(<<800, 600>>)
    /\ inner_size = <<400, 400>>
    /\ uniforms.scale = <<One, ThreeQuarters>>

(***************************************************************************)
(* C9: for every image size and window inner size, a zero width or height  *)
(* included, with preserve_aspect_ratio set and an image set the scale has *)
(* one component that is exactly 1.0 and is the larger one, and the other  *)
(* component is a well-defined value in (0, 1]: the quotient of the        *)
(* smaller ratio by the larger one, never an infinity, a zero or a NaN     *)
(* produced by a division by zero.                                         *)
(***************************************************************************)
InUnitRange(x) == x.class = "normal" /\ F32_ge(One, x)

C9_ScaleWellDefined ==
    (uniforms_current /\ options.preserve_aspect_ratio /\ window_image # None) =>
        \/ uniforms.scale[1] = One /\ InUnitRange(uniforms.scale[2])
        \/ uniforms.scale[2] = One /\ InUnitRange(uniforms.scale[1])


(***************************************************************************)
(* Steps of the MouseCache: the event a step processes                     *)
(***************************************************************************)
Processed == Len(events') = Len(events) + 1

NewEvent == events'[Len(events')]

CacheUnchanged == UNCHANGED <<mouse_buttons, mouse_position, mouse_previous_position>>

(***************************************************************************)
(* C11: in every reachable state every key of mouse_previous_position is   *)
(* also a key of mouse_position.                                           *)
(***************************************************************************)
C11_PreviousKeysArePositionKeys ==
    DOMAIN mouse_previous_position \subseteq DOMAIN mouse_position

\* one device was moved and removed while the key of another device remains
C11_Witness ==
    \E w \in WindowIds, d1 \in DeviceIds, d2 \in DeviceIds :
        /\ d1 # d2
        /\ Len(events) = 3
        /\ IsCursorMoved(events[1], w, d1)
        /\ IsCursorMoved(events[2], w, d2)
        /\ IsRemoved(events[3], d1)
        /\ DOMAIN mouse_previous_position = {<<w, d2>>}
        /\ DOMAIN mouse_position = {<<w, d2>>}

(***************************************************************************)
(* C12: handle_event leaves all three maps as they were for every event    *)
(* other than a window MouseInput, a window CursorMoved and a device       *)
(* Removed: a device Added, a window close, an event that is neither a     *)
(* window nor a device event.                                              *)
(***************************************************************************)
Handled(e) ==
    \/ e.scope = "WindowEvent" /\ e.kind \in {"MouseInput", "CursorMoved"}
    \/ e.scope = "DeviceEvent" /\ e.kind = "Removed"

C12_OtherEventsIgnored ==
    [][(Processed /\ ~Handled(NewEvent)) => CacheUnchanged]_vars

\* an ignored event was processed while the cache held a button entry and a
\* position entry of the device or window the event names
C12_Witness ==
    \E w \in WindowIds, d \in DeviceIds :
        /\ Len(events) = 3
        /\ IsMouseInput(events[1], d)
        /\ IsCursorMoved(events[2], w, d)
        /\ events[3] \in {Added(d), CloseRequested(w), Suspended}
        /\ get_buttons(d) # None
        /\ get_position(w, d) = Some(events[2].position)

(***************************************************************************)
(* C13: entries are deleted only by device removal.  A button entry of d   *)
(* and a position or previous-position entry of (w, d) stay present across *)
(* every step that is not a Removed event for d; a window close leaves the *)
(* positions recorded for the window as they were.                         *)
(***************************************************************************)
C13_OnlyRemovalDeletes ==
    [][Processed =>
        /\ \A d \in DOMAIN mouse_buttons :
            ~IsRemoved(NewEvent, d) => d \in DOMAIN mouse_buttons'
        /\ \A k \in DOMAIN mouse_position :
            ~IsRemoved(NewEvent, k[2]) => k \in DOMAIN mouse_position'
        /\ \A k \in DOMAIN mouse_previous_position :
            ~IsRemoved(NewEvent, k[2]) => k \in DOMAIN mouse_previous_position'
        /\ NewEvent.kind = "CloseRequested" =>
            /\ mouse_position' = mouse_position
            /\ mouse_previous_position' = mouse_previous_position]_vars

\* a window with two recorded moves was closed; both positions are still there
C13_Witness ==
    \E w \in WindowIds, d \in DeviceIds :
        /\ Len(events) = 3
        /\ IsCursorMoved(events[1], w, d)
        /\ IsCursorMoved(events[2], w, d)
        /\ events[1].position # events[2].position
        /\ events[3] = CloseRequested(w)
        /\ get_position(w, d) = Some(events[2].position)
        /\ get_previous_position(w, d) = Some(events[1].position)

(***************************************************************************)
(* C15: a Removed event for d deletes only the entries of d.  The button   *)
(* entry of every other device and the position and previous-position      *)
(* entries of every key of another device are as before; a Removed event   *)
(* for a device without any entry leaves the three maps unchanged.         *)
(***************************************************************************)
OtherDevicesKept(d) ==
    /\ \A x \in DOMAIN mouse_buttons \ {d} :
        x \in DOMAIN mouse_buttons' /\ mouse_buttons'[x] = mouse_buttons[x]
    /\ \A k \in DOMAIN mouse_position :
        k[2] # d => (k \in DOMAIN mouse_position' /\ mouse_position'[k] = mouse_position[k])
    /\ \A k \in DOMAIN mouse_previous_position :
        k[2] # d =>
            /\ k \in DOMAIN mouse_previous_position'
            /\ mouse_previous_position'[k] = mouse_previous_position[k]
    /\ DOMAIN mouse_buttons' \subseteq DOMAIN mouse_buttons
    /\ DOMAIN mouse_position' \subseteq DOMAIN mouse_position
    /\ DOMAIN mouse_previous_position' \subseteq DOMAIN mouse_previous_position

C15_RemovalTouchesOneDevice ==
    [][\A d \in DeviceIds :
        (Processed /\ IsRemoved(NewEvent, d)) =>
            /\ OtherDevicesKept(d)
            /\ DeviceAbsent(d) => CacheUnchanged]_vars

\* d was removed twice in a row while another device kept its position entry
C15_Witness ==
    \E w \in WindowIds, d \in DeviceIds, other \in DeviceIds :
        /\ other # d
        /\ Len(events) = 3
        /\ IsCursorMoved(events[1], w, other)
        /\ IsRemoved(events[2], d)
        /\ IsRemoved(events[3], d)
        /\ get_position(w, other) = Some(events[1].position)
        /\ get_previous_position(w, other) = Some(<<0, 0>>)

(***************************************************************************)
(* C16: a CursorMoved event for (w, d) changes only the position and       *)
(* previous-position entries of the key (w, d).  mouse_buttons and the     *)
(* entries of every other key, (w', d) and (w, d') included, are as        *)
(* before.                                                                 *)
(***************************************************************************)
OtherKeysKept(map, changed, key) ==
    /\ DOMAIN changed \ {key} = DOMAIN map \ {key}
    /\ \A k \in DOMAIN map \ {key} : changed[k] = map[k]

C16_MoveTouchesOneKey ==
    [][\A w \in WindowIds, d \in DeviceIds :
        (Processed /\ IsCursorMoved(NewEvent, w, d)) =>
            /\ mouse_buttons' = mouse_buttons
            /\ OtherKeysKept(mouse_position, mouse_position', <<w, d>>)
            /\ OtherKeysKept(mouse_previous_position, mouse_previous_position', <<w, d>>)
            /\ mouse_position'[<<w, d>>] = NewEvent.position]_vars

\* the same device moved in two windows and the key moved first was moved again
C16_Witness ==
    \E w1 \in WindowIds, w2 \in WindowIds, d \in DeviceIds :
        /\ w1 # w2
        /\ Len(events) = 3
        /\ IsCursorMoved(events[1], w1, d)
        /\ IsCursorMoved(events[2], w2, d)
        /\ IsCursorMoved(events[3], w1, d)
        /\ events[2].position # events[3].position
        /\ events[2].position # <<0, 0>>
        /\ get_position(w2, d) = Some(events[2].position)
        /\ get_previous_position(w2, d) = Some(<<0, 0>>)
        /\ get_position(w1, d) = Some(events[3].position)
        /\ get_previous_position(w1, d) = Some(events[1].position)

(***************************************************************************)
(* C17: button state is keyed by device only.  The window id a MouseInput  *)
(* event carries has no influence on the resulting cache, so a button      *)
(* pressed in an event for one window and released in an event for another *)
(* is reported released; a MouseInput changes no position or               *)
(* previous-position entry and no other device's button entry.             *)
(***************************************************************************)
SameInCache(cache) ==
    /\ mouse_buttons' = cache.mouse_buttons
    /\ mouse_position' = cache.mouse_position
    /\ mouse_previous_position' = cache.mouse_previous_position

C17_ButtonsSharedAcrossWindows ==
    [][\A d \in DeviceIds :
        (Processed /\ IsMouseInput(NewEvent, d)) =>
            /\ mouse_position' = mouse_position
            /\ mouse_previous_position' = mouse_previous_position
            /\ OtherKeysKept(mouse_buttons, mouse_buttons', d)
            /\ \A w \in WindowIds :
                SameInCache(handle_event(Self, [NewEvent EXCEPT !.window_id = w]))
            /\ is_pressed(mouse_buttons'[d], MouseButton_from(NewEvent.button))
                    <=> NewEvent.state = "Pressed"]_vars

\* a button pressed in one window and released in another is reported released
C17_Witness ==
    \E w1 \in WindowIds, w2 \in WindowIds, d \in DeviceIds, b \in WinitButtons :
        /\ w1 # w2
        /\ Len(events) = 2
        /\ events[1] = MouseInput(w1, d, b, "Pressed")
        /\ events[2] = MouseInput(w2, d, b, "Released")
        /\ get_buttons(d) # None
        /\ ~ButtonPressed(d, b)


(***************************************************************************)
(* C14: each WindowOptions setter returns options in which its own field   *)
(* holds the argument (size holds Some(argument)) and the four other       *)
(* fields are those of the input.  So from the default (preserve_aspect_   *)
(* ratio true, start_hidden false, size none, resizable true) any chain of *)
(* setters yields, per field, the last value set, in whatever order the    *)
(* setters of different fields were called.                                *)
(***************************************************************************)
\* the argument of the last call of the setter in the chain, if any
LastSet(setter) ==
    LET IsCall(c) == c[1] = setter
        calls == SelectSeq(chain, IsCall)
    IN  IF calls = <<>> THEN None ELSE Some(calls[Len(calls)][2])

OrDefault(last, default) == IF last = None THEN default ELSE last[1]

LastValuePerField ==
    /\ options.preserve_aspect_ratio = OrDefault(LastSet("set_preserve_aspect_ratio"), TRUE)
    /\ options.background_color = OrDefault(LastSet("set_background_color"), "BLACK")
    /\ options.start_hidden = OrDefault(LastSet("set_start_hidden"), FALSE)
    /\ options.size = LastSet("set_size")
    /\ options.resizable = OrDefault(LastSet("set_resizable"), TRUE)

OptionFields ==
    {"preserve_aspect_ratio", "background_color", "start_hidden", "size", "resizable"}

FieldOf(setter) ==
    CASE setter = "set_preserve_aspect_ratio" -> "preserve_aspect_ratio"
      [] setter = "set_background_color" -> "background_color"
      [] setter = "set_start_hidden" -> "start_hidden"
      [] setter = "set_size" -> "size"
      [] setter = "set_resizable" -> "resizable"

SetterStep ==
    LET setter == chain'[Len(chain')][1]
        argument == chain'[Len(chain')][2]
    IN  /\ options'[FieldOf(setter)] =
                IF setter = "set_size" THEN Some(argument) ELSE argument
        /\ \A field \in OptionFields \ {FieldOf(setter)} :
                options'[field] = options[field]

C14_SettersSetOneField ==
    /\ []LastValuePerField
    /\ [][Len(chain') = Len(chain) + 1 => SetterStep]_vars

\* the size was set twice with resizable set in between: the last size stands
C14_Witness ==
    /\ Len(chain) = 3
    /\ chain[1] = <<"set_size", <<800, 600>>>>
    /\ chain[2] = <<"set_resizable", FALSE>>
    /\ chain[3] = <<"set_size", <<1, 1>>>>
    /\ options =
        [preserve_aspect_ratio |-> TRUE,
         background_color |-> "BLACK",
         start_hidden |-> FALSE,
         size |-> Some(<<1, 1>>),
         resizable |-> FALSE]


=============================================================================
